---- MODULE Spec2Model ----
(***************************************************************************)
(* Schema inference of the MongoDB connector (MongoDBConnector) and the    *)
(* TypeMapper helpers it calls.                                            *)
(*                                                                         *)
(* Strings of the program (field names, GraphQL type names, collection     *)
(* names) are sequences of one-character strings, so that sanitizing,      *)
(* PascalCasing, singularizing and string comparison are computed as the   *)
(* code computes them.  Documents are tagged values:                       *)
(*   [kind |-> "null"], [kind |-> "string", form |-> ...],                 *)
(*   [kind |-> "number", hi, lo, tenths], [kind |-> "boolean"],            *)
(*   [kind |-> "objectid"], [kind |-> "date"], [kind |-> "binary"],        *)
(*   [kind |-> "object", entries |-> <<key, value>> pairs in key order],   *)
(*   [kind |-> "array", elems |-> sequence of values].                     *)
(* A number is hi * 65536 + lo + tenths / 10 with lo in 0..65535, so that  *)
(* integers beyond the signed 32-bit range can be written down.            *)
(***************************************************************************)
EXTENDS Integers, Sequences, FiniteSets, TLC

VARIABLES
    pc,          \* position of introspectCollection: "fetch", "analyze", "done", "failed"
    documents,   \* the sampled documents handed to the analysis
    i,           \* number of documents already analyzed by the loop
    fieldMap,    \* Map<string, FieldDefinition & {occurrences}> in insertion order
    nestedTypes, \* Map<string, EntitySchema> in insertion order
    result,      \* { mainEntity, nestedTypes } returned by introspectCollection
    \* introspect over the configured collections
    smartScan,   \* process.env.SMART_SCAN === 'true'
    collections, \* the store: per collection its name, document count and field paths
    collIndex,   \* number of collections introspect has finished with
    allEntities, \* const allEntities of introspect
    outcomes,    \* per finished collection: how its run ended and its sample calls
    \* locals of dynamicSampling for the collection being introspected
    totalDocCount,
    allDocuments,               \* as its length and the field paths its documents carry
    seenFieldPaths,
    totalSampled,
    iterationsWithoutNewFields,
    iteration,
    batchLength,                \* batch.length of the latest batch, -1 before the first
    newFieldsFound,             \* of the latest batch
    prevBatchStable,            \* whether the batch before the latest found no new path
    sampleCalls,                \* aggregate($sample) calls issued in this run
    countCalls,                 \* countDocuments() calls issued in this run
    findCalls,                  \* find().limit() calls issued in this run
    fetched,                    \* what the store handed out in this run: the batches
                                \* with documents, their documents and their paths
    \* the sample calls of a run as the store sees them
    outstanding,                \* aggregate($sample) calls issued and not yet settled
    arrivals                    \* per document handed out, in order, the number of
                                \* the sample call that returned it

mergeVars == <<documents, i, fieldMap, nestedTypes, result>>

samplerVars == <<smartScan, collections, collIndex, allEntities, outcomes, totalDocCount, allDocuments,
                 seenFieldPaths, totalSampled, iterationsWithoutNewFields, iteration,
                 batchLength, newFieldsFound, prevBatchStable, sampleCalls,
                 countCalls, findCalls, fetched>>

orderVars == <<outstanding, arrivals>>

vars == <<pc, mergeVars, samplerVars, orderVars>>

(***************************************************************************)
(* Bounds.                                                                 *)
(***************************************************************************)
MaxDocs == 3

\* distinct field paths of the widest collection
WidePaths == 30

(***************************************************************************)
(* Strings.                                                                *)
(***************************************************************************)
LowerChars == <<"a","b","c","d","e","f","g","h","i","j","k","l","m",
                "n","o","p","q","r","s","t","u","v","w","x","y","z">>

UpperChars == <<"A","B","C","D","E","F","G","H","I","J","K","L","M",
                "N","O","P","Q","R","S","T","U","V","W","X","Y","Z">>

DigitChars == <<"0","1","2","3","4","5","6","7","8","9">>

Range(s) == { s[n] : n \in DOMAIN s }

IsLower(c) == c \in Range(LowerChars)

IsUpper(c) == c \in Range(UpperChars)

IsDigit(c) == c \in Range(DigitChars)

IndexIn(s, c) == CHOOSE n \in DOMAIN s : s[n] = c

toUpperCase(c) == IF IsLower(c) THEN UpperChars[IndexIn(LowerChars, c)] ELSE c

toLowerCase(c) == IF IsUpper(c) THEN LowerChars[IndexIn(UpperChars, c)] ELSE c

LowerStr(s) == [n \in DOMAIN s |-> toLowerCase(s[n])]

startsWith(s, p) == Len(s) >= Len(p) /\ SubSeq(s, 1, Len(p)) = p

endsWith(s, p) == Len(s) >= Len(p) /\ SubSeq(s, Len(s) - Len(p) + 1, Len(s)) = p

\* s.slice(0, -n)
DropLast(s, n) == SubSeq(s, 1, Len(s) - n)

\* the part of s after its last "_" (parts[parts.length - 1] of s.split('_'))
RECURSIVE LastUnderscore(_, _)
LastUnderscore(s, n) ==
    IF n = 0 THEN 0
    ELSE IF s[n] = "_" THEN n
    ELSE LastUnderscore(s, n - 1)

(***************************************************************************)
(* TypeMapper.                                                             *)
(***************************************************************************)
JSON == <<"J","S","O","N">>

String == <<"S","t","r","i","n","g">>

IntT == <<"I","n","t">>

Float == <<"F","l","o","a","t">>

Boolean == <<"B","o","o","l","e","a","n">>

ID == <<"I","D">>

\* Number.isInteger(value)
IsInteger(v) == v.tenths = 0

\* TypeMapper.mapMongoDBType
RECURSIVE mapMongoDBType(_)
mapMongoDBType(value) ==
    IF value.kind = "null" THEN String
    ELSE IF value.kind = "array" THEN
        IF Len(value.elems) = 0 THEN JSON ELSE mapMongoDBType(value.elems[1])
    ELSE IF value.kind = "string" THEN
        IF value.form = "isodate" THEN String
        ELSE IF value.form = "hex24" THEN ID
        ELSE String
    ELSE IF value.kind = "number" THEN
        IF IsInteger(value) THEN IntT ELSE Float
    ELSE IF value.kind = "boolean" THEN Boolean
    ELSE IF value.kind = "date" THEN String
    ELSE IF value.kind = "objectid" THEN ID
    ELSE JSON

\* TypeMapper.sanitizeFieldName
IsNameChar(c) == IsLower(c) \/ IsUpper(c) \/ IsDigit(c) \/ c = "_"

sanitizeFieldName(name) ==
    LET sanitized == [n \in DOMAIN name |->
                         IF IsNameChar(name[n]) THEN name[n] ELSE "_"]
    IN  IF Len(sanitized) > 0
           /\ (IsLower(sanitized[1]) \/ IsUpper(sanitized[1]) \/ sanitized[1] = "_")
        THEN sanitized
        ELSE <<"_">> \o sanitized

\* TypeMapper.toPascalCase: split on '-', '_' and whitespace, capitalize each
\* word, lower-case its rest, join.  atStart says the next character opens a word.
IsWordSeparator(c) == c \in {"-", "_", " "}

RECURSIVE PascalFrom(_, _, _)
PascalFrom(str, n, atStart) ==
    IF n > Len(str) THEN << >>
    ELSE IF IsWordSeparator(str[n]) THEN PascalFrom(str, n + 1, TRUE)
    ELSE IF atStart THEN <<toUpperCase(str[n])>> \o PascalFrom(str, n + 1, FALSE)
    ELSE <<toLowerCase(str[n])>> \o PascalFrom(str, n + 1, FALSE)

toPascalCase(str) == PascalFrom(str, 1, TRUE)

\* the irregular plurals table of TypeMapper.singularize / singularizeWord
Irregulars ==
    { << <<"p","e","o","p","l","e">>, <<"p","e","r","s","o","n">> >>,
      << <<"m","e","n">>, <<"m","a","n">> >>,
      << <<"w","o","m","e","n">>, <<"w","o","m","a","n">> >>,
      << <<"c","h","i","l","d","r","e","n">>, <<"c","h","i","l","d">> >>,
      << <<"t","e","e","t","h">>, <<"t","o","o","t","h">> >>,
      << <<"f","e","e","t">>, <<"f","o","o","t">> >>,
      << <<"m","i","c","e">>, <<"m","o","u","s","e">> >>,
      << <<"g","e","e","s","e">>, <<"g","o","o","s","e">> >>,
      << <<"m","o","v","i","e","s">>, <<"m","o","v","i","e">> >>,
      << <<"s","e","r","i","e","s">>, <<"s","e","r","i","e","s">> >>,
      << <<"s","p","e","c","i","e","s">>, <<"s","p","e","c","i","e","s">> >> }

IsIrregular(w) == \E p \in Irregulars : p[1] = w

IrregularOf(w) == (CHOOSE p \in Irregulars : p[1] = w)[2]

\* TypeMapper.singularizeWord
singularizeWord(word) ==
    LET lower == LowerStr(word)
    IN  IF IsIrregular(lower) THEN IrregularOf(lower)
        ELSE IF endsWith(lower, <<"i","e","s">>) /\ Len(lower) > 4
             THEN DropLast(lower, 3) \o <<"y">>
        ELSE IF endsWith(lower, <<"v","e","s">>)
             THEN DropLast(lower, 3) \o <<"f">>
        ELSE IF endsWith(lower, <<"s","e","s">>) \/ endsWith(lower, <<"x","e","s">>)
                \/ endsWith(lower, <<"z","e","s">>)
             THEN DropLast(lower, 2)
        ELSE IF endsWith(lower, <<"c","h","e","s">>) \/ endsWith(lower, <<"s","h","e","s">>)
             THEN DropLast(lower, 2)
        ELSE IF endsWith(lower, <<"o","e","s">>)
             THEN DropLast(lower, 2)
        ELSE IF endsWith(lower, <<"s">>) /\ ~endsWith(lower, <<"s","s">>)
                /\ ~endsWith(lower, <<"u","s">>)
             THEN DropLast(lower, 1)
        ELSE lower

\* TypeMapper.singularize
singularize(word) ==
    LET lower == LowerStr(word)
        cut   == LastUnderscore(lower, Len(lower))
    IN  IF IsIrregular(lower) THEN IrregularOf(lower)
        ELSE IF cut > 0
             THEN SubSeq(lower, 1, cut)
                  \o singularizeWord(SubSeq(lower, cut + 1, Len(lower)))
        ELSE singularizeWord(lower)

(***************************************************************************)
(* JavaScript Map, kept as the sequence of its values in insertion order;  *)
(* every value carries its key in the field name.                          *)
(***************************************************************************)
MapHas(m, name) == \E n \in DOMAIN m : m[n].name = name

MapIndex(m, name) == CHOOSE n \in DOMAIN m : m[n].name = name

MapGet(m, name) == m[MapIndex(m, name)]

MapSet(m, name, value) ==
    IF MapHas(m, name) THEN [m EXCEPT ![MapIndex(m, name)] = value]
    ELSE Append(m, value)

(***************************************************************************)
(* MongoDBConnector: value tests.                                          *)
(***************************************************************************)
\* MongoDBConnector.isBinaryType; the Binary / Buffer / buffer-like tests are
\* the value's tag
isBinaryType(value) == value.kind = "binary"

\* typeof value === 'object'
TypeofObject(value) ==
    value.kind \in {"null", "object", "array", "date", "objectid", "binary"}

\* Object.entries(value): the own keys of an array are its indices
ObjectEntries(value) ==
    IF value.kind \in {"object", "binary"} THEN value.entries
    ELSE IF value.kind = "array"
         THEN [n \in DOMAIN value.elems |-> << <<DigitChars[n]>>, value.elems[n] >>]
    ELSE << >>

\* const valueToAnalyze = isArray && value.length > 0 ? value[0] : value
ValueToAnalyze(value) ==
    IF value.kind = "array" /\ Len(value.elems) > 0 THEN value.elems[1] ELSE value

(***************************************************************************)
(* MongoDBConnector.analyzeDocumentWithNesting: the merge of one           *)
(* observation into an existing field.                                     *)
(***************************************************************************)
\* the chain with the Int/Float rule written for one order only
MergeType_OneWay(existingType, type, shouldCreateNestedType) ==
    IF existingType = type THEN existingType
    ELSE IF shouldCreateNestedType THEN type
    ELSE IF type = JSON \/ existingType = JSON THEN JSON
    ELSE IF type = String \/ existingType = String THEN String
    ELSE IF type = Float /\ existingType = IntT THEN Float
    ELSE JSON

\* the "Handle type conflicts" chain
MergeType(existingType, type, shouldCreateNestedType) ==
    IF existingType = type THEN existingType
    ELSE IF shouldCreateNestedType THEN type
    ELSE IF type = JSON \/ existingType = JSON THEN JSON
    ELSE IF type = String \/ existingType = String THEN String
    ELSE IF (type = Float /\ existingType = IntT)
            \/ (type = IntT /\ existingType = Float) THEN Float
    ELSE JSON

\* the step with the latest observation deciding isArray
ArrayInconsistency_LastWins(existingField, isArray) ==
    IF isArray # existingField.isArray
    THEN [existingField EXCEPT !.isArray = isArray, !.isNullable = TRUE]
    ELSE existingField

\* the "Handle array inconsistency" step
ArrayInconsistency(existingField, isArray) ==
    IF isArray # existingField.isArray
    THEN [existingField EXCEPT !.isArray = TRUE, !.isNullable = TRUE]
    ELSE existingField

\* a field map entry; isRequired is set on _id only
NewField(name, type, isArray, isNullable, occurrences) ==
    [name |-> name, type |-> type, isArray |-> isArray, isNullable |-> isNullable,
     isRequired |-> FALSE, occurrences |-> occurrences]

\* the branch for a null value
ObserveNull(fm, sanitizedName) ==
    IF MapHas(fm, sanitizedName)
    THEN MapSet(fm, sanitizedName, [MapGet(fm, sanitizedName) EXCEPT !.isNullable = TRUE])
    ELSE MapSet(fm, sanitizedName, NewField(sanitizedName, String, FALSE, TRUE, 1))

\* "Add or update field in the current field map"
AddOrUpdateField(fm, sanitizedName, type, isArray, shouldCreateNestedType) ==
    IF ~MapHas(fm, sanitizedName)
    THEN MapSet(fm, sanitizedName, NewField(sanitizedName, type, isArray, TRUE, 1))
    ELSE LET existingField == MapGet(fm, sanitizedName)
             counted == [existingField EXCEPT
                            !.occurrences = @ + 1,
                            !.type = MergeType(@, type, shouldCreateNestedType)]
         IN  MapSet(fm, sanitizedName, ArrayInconsistency(counted, isArray))

\* ({ occurrences, ...field }) => field
DropOccurrences(f) ==
    [name |-> f.name, type |-> f.type, isArray |-> f.isArray,
     isNullable |-> f.isNullable, isRequired |-> f.isRequired]

\* fields of a nested type when it is first registered: all nullable
NestedFieldsNew(nestedFieldMap) ==
    [n \in DOMAIN nestedFieldMap |->
        [DropOccurrences(nestedFieldMap[n]) EXCEPT !.isNullable = TRUE]]

\* fields of a nested type when it is updated
NestedFieldsUpdated(nestedFieldMap) ==
    [n \in DOMAIN nestedFieldMap |-> DropOccurrences(nestedFieldMap[n])]

\* "Convert existing fields back to map"
RECURSIVE FieldsToMap(_, _, _)
FieldsToMap(fields, n, m) ==
    IF n > Len(fields) THEN m
    ELSE FieldsToMap(fields, n + 1,
            MapSet(m, fields[n].name,
                   [name |-> fields[n].name, type |-> fields[n].type,
                    isArray |-> fields[n].isArray, isNullable |-> fields[n].isNullable,
                    isRequired |-> fields[n].isRequired, occurrences |-> 1]))

\* an update that starts from an empty map instead of the existing fields
ExistingFieldMap_Fresh(existingType) == << >>

\* const nestedFieldMap = new Map(); for (const field of existingType.fields) ...
ExistingFieldMap(existingType) == FieldsToMap(existingType.fields, 1, << >>)

\* `${currentPath}${currentPath ? '.' : ''}${key}`
ChildPath(currentPath, key) ==
    IF currentPath = << >> THEN key ELSE currentPath \o <<".">> \o key

\* what one call has done: the field map it was given, the shared registry,
\* and whether it threw
Outcome(fm, nt, threw) == [fieldMap |-> fm, nestedTypes |-> nt, threw |-> threw]

RECURSIVE analyzeDocumentWithNesting(_, _, _, _, _, _)
RECURSIVE AnalyzeEntries(_, _, _, _, _, _, _)
RECURSIVE AnalyzeEntry(_, _, _, _, _, _, _)
RECURSIVE InferType(_, _, _, _, _, _)

\* "Determine the GraphQL type" of one non-null value: the type, whether a
\* nested type was created or updated, the registry afterwards, and whether
\* the step threw (valueToAnalyze.constructor of a null first array element)
InferType(key, value, totalDocs, parentTypeName, currentPath, nt) ==
    LET isArray == value.kind = "array"
        valueToAnalyze == ValueToAnalyze(value)
        plain(t) == [type |-> t, shouldCreateNestedType |-> FALSE,
                     nestedTypes |-> nt, threw |-> FALSE]
    IN  IF isArray /\ Len(value.elems) = 0 THEN plain(JSON)
        ELSE IF isBinaryType(valueToAnalyze) THEN plain(JSON)
        ELSE IF valueToAnalyze.kind = "null"
             THEN [plain(JSON) EXCEPT !.threw = TRUE]
        ELSE IF TypeofObject(valueToAnalyze) /\ valueToAnalyze.kind # "date"
                /\ valueToAnalyze.kind # "objectid"
             THEN
                IF Len(ObjectEntries(valueToAnalyze)) > 0 /\ ~isBinaryType(valueToAnalyze)
                THEN
                    LET nestedTypeName == parentTypeName \o toPascalCase(key)
                        existed == MapHas(nt, nestedTypeName)
                        nestedFieldMap ==
                            IF existed
                            THEN ExistingFieldMap(MapGet(nt, nestedTypeName))
                            ELSE << >>
                        inner == analyzeDocumentWithNesting(
                                     valueToAnalyze, nestedFieldMap, totalDocs,
                                     nestedTypeName, ChildPath(currentPath, key), nt)
                        entity ==
                            IF existed
                            THEN [MapGet(nt, nestedTypeName) EXCEPT
                                     !.fields = NestedFieldsUpdated(inner.fieldMap)]
                            ELSE [name |-> nestedTypeName,
                                  fields |-> NestedFieldsNew(inner.fieldMap),
                                  description |-> <<parentTypeName, key>>,
                                  isNested |-> TRUE]
                    IN  [type |-> nestedTypeName,
                         shouldCreateNestedType |-> TRUE,
                         nestedTypes |->
                             IF inner.threw THEN inner.nestedTypes
                             ELSE MapSet(inner.nestedTypes, nestedTypeName, entity),
                         threw |-> inner.threw]
                ELSE plain(JSON)
        ELSE plain(mapMongoDBType(valueToAnalyze))

\* one iteration of the loop over Object.entries(doc)
AnalyzeEntry(key, value, fm, totalDocs, parentTypeName, currentPath, nt) ==
    LET sanitizedName == sanitizeFieldName(key)
    IN  IF key = <<"_","i","d">> /\ currentPath = << >> THEN Outcome(fm, nt, FALSE)
        ELSE IF startsWith(key, <<"_","_">>) \/ startsWith(key, <<"$">>)
             THEN Outcome(fm, nt, FALSE)
        ELSE IF value.kind = "null"
             THEN Outcome(ObserveNull(fm, sanitizedName), nt, FALSE)
        ELSE LET inferred == InferType(key, value, totalDocs, parentTypeName,
                                       currentPath, nt)
             IN  IF inferred.threw THEN Outcome(fm, inferred.nestedTypes, TRUE)
                 ELSE Outcome(AddOrUpdateField(fm, sanitizedName, inferred.type,
                                               value.kind = "array",
                                               inferred.shouldCreateNestedType),
                              inferred.nestedTypes, FALSE)

\* the loop over Object.entries(doc), from entry n on
AnalyzeEntries(entries, n, fm, totalDocs, parentTypeName, currentPath, nt) ==
    IF n > Len(entries) THEN Outcome(fm, nt, FALSE)
    ELSE LET one == AnalyzeEntry(entries[n][1], entries[n][2], fm, totalDocs,
                                 parentTypeName, currentPath, nt)
         IN  IF one.threw THEN one
             ELSE AnalyzeEntries(entries, n + 1, one.fieldMap, totalDocs,
                                 parentTypeName, currentPath, one.nestedTypes)

analyzeDocumentWithNesting(doc, fm, totalDocs, parentTypeName, currentPath, nt) ==
    IF doc.kind = "null" \/ ~TypeofObject(doc) THEN Outcome(fm, nt, FALSE)
    ELSE AnalyzeEntries(ObjectEntries(doc), 1, fm, totalDocs,
                        parentTypeName, currentPath, nt)

(***************************************************************************)
(* MongoDBConnector.introspectCollection.                                  *)
(***************************************************************************)
collectionName == <<"u","s","e","r","s">>

\* const typeName = TypeMapper.toPascalCase(TypeMapper.singularize(collectionName))
typeName == toPascalCase(singularize(collectionName))

IdName == <<"_","i","d">>

\* the entry set for _id before the loop, and the only field of the minimal schema
IdField(occurrences) ==
    [name |-> IdName, type |-> ID, isArray |-> FALSE, isNullable |-> FALSE,
     isRequired |-> TRUE, occurrences |-> occurrences]

\* the rule deciding on the occurrence count alone
FinalNullable_CountOnly(occurrences, documentsLength, isNullable) ==
    occurrences # documentsLength

\* "Only mark as non-nullable if field appears in ALL documents (100%)"
FinalNullable(occurrences, documentsLength, isNullable) ==
    ~(occurrences = documentsLength /\ ~isNullable)

\* "Convert to final schema, removing occurrence tracking"
FinalFields(fm, documentsLength) ==
    [n \in DOMAIN fm |->
        [DropOccurrences(fm[n]) EXCEPT
            !.isNullable = FinalNullable(fm[n].occurrences, documentsLength,
                                         fm[n].isNullable)]]

\* the schema returned for a collection without documents
MinimalSchema ==
    [mainEntity  |-> [name |-> typeName, fields |-> <<DropOccurrences(IdField(0))>>],
     nestedTypes |-> << >>]

NoResult == [mainEntity |-> [name |-> << >>, fields |-> << >>], nestedTypes |-> << >>]

(***************************************************************************)
(* Documents the store can return.                                         *)
(***************************************************************************)
Null == [kind |-> "null"]

Str(form) == [kind |-> "string", form |-> form]

Num(hi, lo, tenths) == [kind |-> "number", hi |-> hi, lo |-> lo, tenths |-> tenths]

Bool == [kind |-> "boolean"]

ObjectIdValue == [kind |-> "objectid"]

DateValue == [kind |-> "date"]

\* a Node.js Buffer: its own enumerable keys are its byte indices
BufferValue ==
    [kind |-> "binary",
     entries |-> << << <<"0">>, [kind |-> "number", hi |-> 0, lo |-> 7, tenths |-> 0] >> >>]

\* a BSON Binary: an object with the properties buffer, sub_type and position
BinaryValue ==
    [kind |-> "binary",
     entries |-> << << <<"b","u","f","f","e","r">>, BufferValue >>,
                    << <<"s","u","b","_","t","y","p","e">>,
                       [kind |-> "number", hi |-> 0, lo |-> 0, tenths |-> 0] >>,
                    << <<"p","o","s","i","t","i","o","n">>,
                       [kind |-> "number", hi |-> 0, lo |-> 1, tenths |-> 0] >> >>]

Obj(entries) == [kind |-> "object", entries |-> entries]

Arr(elems) == [kind |-> "array", elems |-> elems]

KeyA == <<"a">>

KeyB == <<"b","-","c">>

KeyX == <<"x">>

KeyY == <<"y">>

Five == Num(0, 5, 0)

FiveAndHalf == Num(0, 5, 5)

MaxInt32 == Num(32767, 65535, 0)

TwoTo31 == Num(32768, 0, 0)

PopulatedX == Obj(<< <<KeyX, Five>> >>)

PopulatedY == Obj(<< <<KeyY, Str("plain")>> >>)

\* the values field a takes in the sampled documents
ValuesA ==
    { Null, Str("plain"), Str("hex24"), Five, FiveAndHalf, MaxInt32, TwoTo31,
      Bool, ObjectIdValue, DateValue, BinaryValue,
      Obj(<< >>), PopulatedX, PopulatedY,
      Arr(<< >>), Arr(<<Str("plain"), Str("plain")>>), Arr(<<PopulatedX>>),
      Arr(<<Null>>) }

\* every stored document carries its _id
Doc(entries) == Obj(<< <<IdName, ObjectIdValue>> >> \o entries)

DocSet ==
    { Doc(<< >>) }
    \cup { Doc(<< <<KeyA, v>> >>) : v \in ValuesA }
    \cup { Doc(<< <<KeyA, Five>>, <<KeyB, Str("plain")>> >>) }

SeqsUpTo(S, n) == UNION { [1..m -> S] : m \in 0..n }

(***************************************************************************)
(* Actions.                                                                *)
(***************************************************************************)
NothingFetched == [batches |-> 0, documents |-> 0, paths |-> {}]

\* no collection run of introspect is under way
SamplerIdle ==
    /\ smartScan = FALSE
    /\ collections = << >>
    /\ collIndex = 0
    /\ allEntities = << >>
    /\ outcomes = << >>
    /\ totalDocCount = 0
    /\ allDocuments = [length |-> 0, paths |-> {}]
    /\ seenFieldPaths = {}
    /\ totalSampled = 0
    /\ iterationsWithoutNewFields = 0
    /\ iteration = 0
    /\ batchLength = -1
    /\ newFieldsFound = -1
    /\ prevBatchStable = FALSE
    /\ sampleCalls = 0
    /\ countCalls = 0
    /\ findCalls = 0
    /\ fetched = NothingFetched

\* no document analysis is under way and no sample call is outstanding
MergeIdle ==
    /\ outstanding = 0
    /\ arrivals = << >>
    /\ documents = << >>
    /\ i = 0
    /\ fieldMap = << >>
    /\ nestedTypes = << >>
    /\ result = NoResult

Init ==
    /\ pc = "fetch"
    /\ MergeIdle
    /\ SamplerIdle

\* introspectCollection up to the analysis loop: the documents arrive, an
\* empty sample returns the minimal schema, otherwise the field map starts
\* with _id and the registry empty
Fetch ==
    /\ pc = "fetch"
    /\ \E docs \in SeqsUpTo(DocSet, MaxDocs) :
         /\ documents' = docs
         /\ IF Len(docs) = 0
            THEN /\ result' = MinimalSchema
                 /\ pc' = "done"
                 /\ fieldMap' = fieldMap
            ELSE /\ result' = result
                 /\ pc' = "analyze"
                 /\ fieldMap' = <<IdField(Len(docs))>>
    /\ UNCHANGED <<i, nestedTypes, samplerVars>>
    /\ UNCHANGED orderVars

\* one iteration of "for (const doc of documents)" that returns normally
AnalyzeDocument ==
    /\ pc = "analyze"
    /\ i < Len(documents)
    /\ LET out == analyzeDocumentWithNesting(documents[i + 1], fieldMap,
                      Len(documents), typeName, << >>, nestedTypes)
       IN  /\ ~out.threw
           /\ fieldMap' = out.fieldMap
           /\ nestedTypes' = out.nestedTypes
    /\ i' = i + 1
    /\ UNCHANGED <<pc, documents, result, samplerVars>>
    /\ UNCHANGED orderVars

\* one iteration that throws: introspectCollection has no handler, the
\* exception leaves it and no schema is returned for the collection
AnalyzeThrows ==
    /\ pc = "analyze"
    /\ i < Len(documents)
    /\ analyzeDocumentWithNesting(documents[i + 1], fieldMap,
           Len(documents), typeName, << >>, nestedTypes).threw
    /\ pc' = "failed"
    /\ UNCHANGED <<documents, i, fieldMap, nestedTypes, result, samplerVars>>
    /\ UNCHANGED orderVars

\* after the loop: the final schema
Finalize ==
    /\ pc = "analyze"
    /\ i = Len(documents)
    /\ result' = [mainEntity  |-> [name |-> typeName,
                                   fields |-> FinalFields(fieldMap, Len(documents))],
                  nestedTypes |-> nestedTypes]
    /\ pc' = "done"
    /\ UNCHANGED <<documents, i, fieldMap, nestedTypes, samplerVars>>
    /\ UNCHANGED orderVars

Next == Fetch \/ AnalyzeDocument \/ AnalyzeThrows \/ Finalize

Spec == Init /\ [][Next]_vars

(***************************************************************************)
(* The whole analysis of a list of documents as one function: the loop of  *)
(* introspectCollection followed by the conversion to the final schema.    *)
(***************************************************************************)
RECURSIVE AnalyzeAll(_, _, _, _)
AnalyzeAll(docs, n, fm, nt) ==
    IF n > Len(docs) THEN Outcome(fm, nt, FALSE)
    ELSE LET out == analyzeDocumentWithNesting(docs[n], fm, Len(docs),
                                               typeName, << >>, nt)
         IN  IF out.threw THEN out
             ELSE AnalyzeAll(docs, n + 1, out.fieldMap, out.nestedTypes)

IntrospectDocuments(docs) ==
    LET out == AnalyzeAll(docs, 1, <<IdField(Len(docs))>>, << >>)
    IN  [threw  |-> out.threw,
         schema |-> [mainEntity  |-> [name |-> typeName,
                                      fields |-> FinalFields(out.fieldMap, Len(docs))],
                     nestedTypes |-> out.nestedTypes]]

(***************************************************************************)
(* Vocabulary of the properties.                                           *)
(***************************************************************************)
HasKey(doc, key) == \E n \in DOMAIN doc.entries : doc.entries[n][1] = key

ValueAt(doc, key) ==
    doc.entries[CHOOSE n \in DOMAIN doc.entries : doc.entries[n][1] = key][2]

\* the document carries the key with a value other than null
PresentNonNull(doc, key) == HasKey(doc, key) /\ ValueAt(doc, key).kind # "null"

HasField(fields, name) == \E n \in DOMAIN fields : fields[n].name = name

FieldOf(fields, name) == fields[CHOOSE n \in DOMAIN fields : fields[n].name = name]

\* field a and the nested type synthesized for it, as the program spells them
NameA == <<"a">>

NestedA == <<"U","s","e","r","A">>

IsEmptyObject(v) == v.kind = "object" /\ Len(v.entries) = 0

IsPopulatedObject(v) == v.kind = "object" /\ Len(v.entries) > 0

IsScalarValue(v) == v.kind \in {"string", "number", "boolean", "objectid", "date"}

ScalarTypes == {JSON, String, IntT, Float, Boolean, ID}

\* the type the analysis determines for one non-null value of field a
ObservedType(v) == InferType(KeyA, v, 1, typeName, << >>, << >>).type

\* the documents that carry field a, in order
DocsWithA == { n \in DOMAIN documents : HasKey(documents[n], KeyA) }

Finished == pc = "done" /\ Len(documents) > 0

FinalA == FieldOf(result.mainEntity.fields, NameA)

\* what the claims compare of a schema: per field its type, isArray and
\* isNullable, and per nested type its name and field set
FieldFacts(fields) ==
    { [name |-> fields[n].name, type |-> fields[n].type,
       isArray |-> fields[n].isArray, isNullable |-> fields[n].isNullable]
      : n \in DOMAIN fields }

SchemaFacts(schema) ==
    [fields |-> FieldFacts(schema.mainEntity.fields),
     nested |-> { <<schema.nestedTypes[n].name, FieldFacts(schema.nestedTypes[n].fields)>>
                  : n \in DOMAIN schema.nestedTypes }]

Permuted(docs, p) == [n \in DOMAIN docs |-> docs[p[n]]]

(***************************************************************************)
(* C1.  Order-independence: merging a fixed set of sampled documents in    *)
(* any permutation yields the same final schema - the same type, isArray   *)
(* and isNullable for every field and the same nested types with the same  *)
(* field sets.                                                             *)
(***************************************************************************)
C1_OrderIndependence ==
    Finished =>
        \A p \in Permutations(DOMAIN documents) :
            LET other == IntrospectDocuments(Permuted(documents, p))
            IN  /\ ~other.threw
                /\ SchemaFacts(other.schema) = SchemaFacts(result)

(***************************************************************************)
(* C2.  Upgrade law: a field seen as an empty object in one document and   *)
(* as a populated object in another ends with the synthesized nested type, *)
(* in both observation orders, and never as JSON.                          *)
(***************************************************************************)
C2_UpgradeLaw ==
    (/\ Finished
     /\ \A n \in DocsWithA : ValueAt(documents[n], KeyA).kind = "object"
     /\ \E n \in DocsWithA : IsEmptyObject(ValueAt(documents[n], KeyA))
     /\ \E n \in DocsWithA : IsPopulatedObject(ValueAt(documents[n], KeyA)))
    => FinalA.type = NestedA

(***************************************************************************)
(* C3.  Nested dominates: a field seen as a populated object in one        *)
(* document and as a scalar value in another ends with the synthesized     *)
(* nested type, whichever is merged first.                                 *)
(***************************************************************************)
C3_NestedDominates ==
    (/\ Finished
     /\ \A n \in DocsWithA :
            \/ IsPopulatedObject(ValueAt(documents[n], KeyA))
            \/ IsScalarValue(ValueAt(documents[n], KeyA))
     /\ \E n \in DocsWithA : IsPopulatedObject(ValueAt(documents[n], KeyA))
     /\ \E n \in DocsWithA : IsScalarValue(ValueAt(documents[n], KeyA)))
    => FinalA.type = NestedA

(***************************************************************************)
(* C4.  Monotonic widening: no merge moves a field's type down in the      *)
(* precedence nested > JSON > String > Float > Int.                        *)
(***************************************************************************)
Generality(t) ==
    IF t = IntT THEN 1
    ELSE IF t = Float THEN 2
    ELSE IF t = String THEN 3
    ELSE IF t = JSON THEN 4
    ELSE IF t \notin ScalarTypes THEN 5
    ELSE 0

C4_MonotonicWidening ==
    [][\A n \in DOMAIN fieldMap :
          (/\ HasField(fieldMap', fieldMap[n].name)
           /\ Generality(fieldMap[n].type) > 0
           /\ Generality(FieldOf(fieldMap', fieldMap[n].name).type) > 0)
          => Generality(FieldOf(fieldMap', fieldMap[n].name).type)
                >= Generality(fieldMap[n].type)]_vars

(***************************************************************************)
(* C5.  Nullability, non-nullable direction: a field present with a        *)
(* non-null value in every merged document, and never seen with            *)
(* conflicting array-ness, is non-nullable in the final schema.            *)
(***************************************************************************)
C5_AlwaysPresentIsNonNullable ==
    (/\ Finished
     /\ \A n \in DOMAIN documents : PresentNonNull(documents[n], KeyA)
     /\ \A m, n \in DOMAIN documents :
            (ValueAt(documents[m], KeyA).kind = "array")
                = (ValueAt(documents[n], KeyA).kind = "array"))
    => ~FinalA.isNullable

(***************************************************************************)
(* C6.  Nullability, nullable direction: no field of the final schema is   *)
(* non-nullable unless every merged document carries it with a non-null    *)
(* value; a field absent from or null in some document is nullable.        *)
(***************************************************************************)
CarriesNonNull(doc, name) ==
    \E n \in DOMAIN doc.entries :
        /\ sanitizeFieldName(doc.entries[n][1]) = name
        /\ doc.entries[n][2].kind # "null"

C6_NullableUnlessAlwaysPresent ==
    pc = "done" =>
        \A n \in DOMAIN result.mainEntity.fields :
            ~result.mainEntity.fields[n].isNullable =>
                \A d \in DOMAIN documents :
                    CarriesNonNull(documents[d], result.mainEntity.fields[n].name)

\* a finished run in which field a is missing from or null in one document,
\* carried by another, and nullable in the final schema
C6_Witness ==
    /\ Finished
    /\ \E n \in DOMAIN documents : ~PresentNonNull(documents[n], KeyA)
    /\ \E n \in DOMAIN documents : PresentNonNull(documents[n], KeyA)
    /\ HasField(result.mainEntity.fields, NameA)
    /\ FinalA.isNullable

(***************************************************************************)
(* C7.  Scalar merge table: two differing non-nested observed types merge  *)
(* to JSON if either is JSON, else to String if either is String, else to  *)
(* Float if they are Int and Float, else to JSON - in both orders.         *)
(***************************************************************************)
MergeTable(t1, t2) ==
    IF JSON \in {t1, t2} THEN JSON
    ELSE IF String \in {t1, t2} THEN String
    ELSE IF {t1, t2} = {IntT, Float} THEN Float
    ELSE JSON

\* the first two documents have been merged and both carry a non-null,
\* non-nested value of field a, of differing observed types
TwoScalarObservations ==
    /\ pc = "analyze"
    /\ i = 2
    /\ PresentNonNull(documents[1], KeyA)
    /\ PresentNonNull(documents[2], KeyA)
    /\ ObservedType(ValueAt(documents[1], KeyA)) \in ScalarTypes
    /\ ObservedType(ValueAt(documents[2], KeyA)) \in ScalarTypes
    /\ ObservedType(ValueAt(documents[1], KeyA)) # ObservedType(ValueAt(documents[2], KeyA))

C7_ScalarMergeTable ==
    TwoScalarObservations =>
        FieldOf(fieldMap, NameA).type =
            MergeTable(ObservedType(ValueAt(documents[1], KeyA)),
                       ObservedType(ValueAt(documents[2], KeyA)))

\* count = 5.5 then 5 has been merged to Float
C7_Witness ==
    /\ TwoScalarObservations
    /\ ValueAt(documents[1], KeyA) = FiveAndHalf
    /\ ValueAt(documents[2], KeyA) = Five
    /\ FieldOf(fieldMap, NameA).type = Float

(***************************************************************************)
(* C8.  Array/scalar conflict: a field seen as a scalar string in one      *)
(* document and as an array of strings in another ends with isArray =      *)
(* true, isNullable = true and element type String, in either order and    *)
(* whatever further observations follow.                                   *)
(***************************************************************************)
StringArray == Arr(<<Str("plain"), Str("plain")>>)

\* the first two documents carry the scalar string and the string array
StringThenArrayOrArrayThenString ==
    /\ Finished
    /\ Len(documents) >= 2
    /\ HasKey(documents[1], KeyA)
    /\ HasKey(documents[2], KeyA)
    /\ {ValueAt(documents[1], KeyA), ValueAt(documents[2], KeyA)}
           = {Str("plain"), StringArray}

C8_ArrayScalarConflict ==
    StringThenArrayOrArrayThenString =>
        /\ FinalA.isArray
        /\ FinalA.isNullable
        /\ FinalA.type = String

\* an empty array, or an empty object, a binary value, a populated object or
\* an array, alone or as the first element of an array
IsOpaqueOrObject(v) ==
    \/ v.kind = "array" /\ Len(v.elems) = 0
    \/ ValueToAnalyze(v).kind \in {"binary", "object", "array"}

\* C8 as amended: isArray and isNullable hold whatever follows; the type is
\* String provided no further observation is opaque or an object
C8_ArrayScalarConflictAmended ==
    StringThenArrayOrArrayThenString =>
        /\ FinalA.isArray
        /\ FinalA.isNullable
        /\ (\A n \in DocsWithA : n > 2 => ~IsOpaqueOrObject(ValueAt(documents[n], KeyA)))
              => FinalA.type = String

\* tags = ["a","b"], then "urgent", then a number: an array of String
C8_Witness ==
    /\ StringThenArrayOrArrayThenString
    /\ Len(documents) = 3
    /\ ValueAt(documents[1], KeyA) = StringArray
    /\ HasKey(documents[3], KeyA)
    /\ ValueAt(documents[3], KeyA) = Five
    /\ FinalA.isArray
    /\ FinalA.type = String

(***************************************************************************)
(* C9.  Magnitude rule: an integral number is typed Int exactly when it    *)
(* lies in the signed 32-bit range, and Float when it lies outside.        *)
(***************************************************************************)
\* -2^31 <= hi * 65536 + lo <= 2^31 - 1, for lo in 0..65535
InInt32(v) == v.hi >= -32768 /\ v.hi <= 32767

C9_MagnitudeRule ==
    (/\ pc = "analyze"
     /\ i = 1
     /\ HasKey(documents[1], KeyA)
     /\ ValueAt(documents[1], KeyA).kind = "number"
     /\ ValueAt(documents[1], KeyA).tenths = 0)
    => FieldOf(fieldMap, NameA).type =
          (IF InInt32(ValueAt(documents[1], KeyA)) THEN IntT ELSE Float)

(***************************************************************************)
(* C10. A null first observation does not fix the type: a field that is    *)
(* null in the first document and carries non-null values of one type T    *)
(* in the later documents ends with type T, and nullable.                  *)
(***************************************************************************)
C10_NullDoesNotFixType ==
    (/\ Finished
     /\ Len(documents) >= 2
     /\ HasKey(documents[1], KeyA)
     /\ ValueAt(documents[1], KeyA).kind = "null"
     /\ \A n \in 2..Len(documents) :
            /\ PresentNonNull(documents[n], KeyA)
            /\ ObservedType(ValueAt(documents[n], KeyA))
                  = ObservedType(ValueAt(documents[2], KeyA)))
    => /\ FinalA.type = ObservedType(ValueAt(documents[2], KeyA))
       /\ FinalA.isNullable

(***************************************************************************)
(* introspect with smart scan: dynamicSampling per configured collection.  *)
(*                                                                         *)
(* A collection of the store is its name, the number countDocuments        *)
(* returns, and its field paths, numbered 1..numPaths with path 1 the      *)
(* path "_id".  In a uniform collection every document carries every       *)
(* path.  A batch returned by aggregate($sample) is its length and the     *)
(* set of paths extractFieldPaths finds in its documents; in a collection  *)
(* that is not uniform that set is any 1..m, the documents drawn deciding  *)
(* m.  The entity inferred from sampled documents is represented by the    *)
(* number of documents and the paths it was inferred from.                 *)
(***************************************************************************)
INITIAL_BATCH_SIZE == 50

SUBSEQUENT_BATCH_SIZE == 100

MAX_SAMPLES == 5000

STABLE_ITERATIONS == 2

Min(a, b) == IF a <= b THEN a ELSE b

\* const batchSize = iteration === 1 ? INITIAL_BATCH_SIZE : SUBSEQUENT_BATCH_SIZE
BatchSize(iter) == IF iter = 1 THEN INITIAL_BATCH_SIZE ELSE SUBSEQUENT_BATCH_SIZE

\* a batch request that ignores what has been sampled already
RemainingSamples_Uncapped(batchSize, sampled) == batchSize

\* const remainingSamples = Math.min(batchSize, MAX_SAMPLES - totalSampled)
RemainingSamples(batchSize, sampled) == Min(batchSize, MAX_SAMPLES - sampled)

\* a loop that runs one stable batch longer
LoopGuard_OneMore(sampled, counter) ==
    sampled < MAX_SAMPLES /\ counter <= STABLE_ITERATIONS

\* while (totalSampled < MAX_SAMPLES && iterationsWithoutNewFields < STABLE_ITERATIONS)
LoopGuard(sampled, counter) ==
    sampled < MAX_SAMPLES /\ counter < STABLE_ITERATIONS

\* a counter that also counts a batch with a single new field path as stable
StabilityCounter_BelowTwo(counter, newFields) ==
    IF newFields < 2 THEN counter + 1 ELSE 0

\* if (newFieldsFound === 0) iterationsWithoutNewFields++ else iterationsWithoutNewFields = 0
StabilityCounter(counter, newFields) ==
    IF newFields = 0 THEN counter + 1 ELSE 0

\* a count of the paths seen so far instead of the paths added
NewFieldsFound_Total(before, after) == Cardinality(after)

\* const newFieldsFound = seenFieldPaths.size - fieldCountBefore
NewFieldsFound(before, after) == Cardinality(after) - Cardinality(before)

\* if (totalSampled >= totalDocCount * 0.8) break
EarlyExit(sampled, docCount) == sampled * 10 >= docCount * 8

\* a count check that lets an empty collection into the sampling loop
IsEmptyCount_Never(docCount) == FALSE

\* if (totalDocCount === 0) return { documents: [], ... }
IsEmptyCount(docCount) == docCount = 0

\* the mainEntity introspectCollection returns for documents.length === 0
MinimalEntity(coll) ==
    [name       |-> coll.typeName,
     fields     |-> <<DropOccurrences(IdField(0))>>,
     sourceName |-> << >>,
     sampled    |-> 0,
     fieldPaths |-> {}]

\* the mainEntity introspectCollection returns for the sampled documents
InferredEntity(coll, docs) ==
    [name       |-> coll.typeName,
     fields     |-> <<DropOccurrences(IdField(docs.length))>>,
     sourceName |-> coll.name,
     sampled    |-> docs.length,
     fieldPaths |-> docs.paths]

\* introspectCollection after sampling: if (documents.length === 0) minimal schema
EntityFor(coll, docs) ==
    IF docs.length = 0 THEN MinimalEntity(coll) ELSE InferredEntity(coll, docs)

\* a catch block that salvages an entity from the documents fetched so far
EntitiesAfterFailure_Salvage(entities, coll, docs) ==
    IF docs.length = 0 THEN entities ELSE Append(entities, InferredEntity(coll, docs))

\* catch (error) { Logger.warning(...) }: nothing is pushed for the collection
EntitiesAfterFailure(entities, coll, docs) == entities

\* the collections of the store
Users == <<"u","s","e","r","s">>

Movies == <<"m","o","v","i","e","s">>

\* typeName is the name introspectCollection gives the collection's entity
Collection(name, docCount, numPaths, uniform) ==
    [name |-> name, typeName |-> toPascalCase(singularize(name)),
     totalDocCount |-> docCount, numPaths |-> numPaths,
     uniform |-> uniform, volatile |-> FALSE]

EmptyCollection(name) == Collection(name, 0, 0, TRUE)

\* ten documents of differing shape
TinyCollection(name) == Collection(name, 10, 3, FALSE)

\* 1000 documents, every one with _id and the same four other fields
UniformCollection(name) == Collection(name, 1000, 5, TRUE)

\* 1000 documents, a few of them with a field the others lack
SparseCollection(name) == Collection(name, 1000, 3, FALSE)

\* 10000 documents of many shapes
WideCollection(name) == Collection(name, 10000, WidePaths, FALSE)

\* 1000 documents of differing shape, deleted and inserted while the run goes on
VolatileCollection(name) ==
    [Collection(name, 1000, 4, FALSE) EXCEPT !.volatile = TRUE]

SmallCollections(name) ==
    { EmptyCollection(name), TinyCollection(name), UniformCollection(name) }

Stores ==
    { <<k>> : k \in SmallCollections(Users)
                    \cup { SparseCollection(Users), WideCollection(Users),
                           VolatileCollection(Users) } }
    \cup { <<k1, k2>> : k1 \in SmallCollections(Users), k2 \in SmallCollections(Movies) }

\* what aggregate([{ $sample: { size } }]).toArray() can resolve to: size
\* documents, or none when the documents counted are gone by then
BatchLengths(size) == {0, size}

\* of a volatile collection also a single document, or one less than asked for
ShortLengths(coll, size) ==
    IF coll.volatile THEN { n \in {1, size - 1} : 0 < n /\ n < size } ELSE {}

Batches(coll, size) ==
    { [length |-> 0, paths |-> {}] }
    \cup { [length |-> n, paths |-> 1..m] :
              n \in (BatchLengths(size) \cup ShortLengths(coll, size)) \ {0},
              m \in (IF coll.uniform THEN {coll.numPaths} ELSE 1..coll.numPaths) }

CurrentCollection == collections[collIndex + 1]

LocalsCleared ==
    /\ totalDocCount' = 0
    /\ allDocuments' = [length |-> 0, paths |-> {}]
    /\ seenFieldPaths' = {}
    /\ totalSampled' = 0
    /\ iterationsWithoutNewFields' = 0
    /\ iteration' = 0
    /\ batchLength' = -1
    /\ newFieldsFound' = -1
    /\ prevBatchStable' = FALSE
    /\ sampleCalls' = 0
    /\ countCalls' = 0
    /\ findCalls' = 0
    /\ fetched' = NothingFetched

RunOutcome(name, status, samples, counts, finds) ==
    [name |-> name, status |-> status, sampleCalls |-> samples,
     countCalls |-> counts, findCalls |-> finds]

\* the store's record of a batch with documents it handed out
Fetched(before, batch) ==
    IF batch.length = 0 THEN before
    ELSE [batches   |-> before.batches + 1,
          documents |-> before.documents + batch.length,
          paths     |-> before.paths \cup batch.paths]

\* a run that samples adaptively whatever the flag says
UseDynamicSampling_Always(flag) == TRUE

\* if (smartScan) { ... dynamicSampling ... } else { ... find().limit ... }
UseDynamicSampling(flag) == flag

\* const sampleSize = 500
FIXED_SAMPLE_SIZE == 500

\* a total that forgets the batch
AddSampled_Lost(sampled, length) == sampled

\* totalSampled += batch.length
AddSampled(sampled, length) == sampled + length

InitSampling ==
    /\ pc = "next"
    /\ MergeIdle
    /\ smartScan \in BOOLEAN
    /\ collections \in Stores
    /\ collIndex = 0
    /\ allEntities = << >>
    /\ outcomes = << >>
    /\ totalDocCount = 0
    /\ allDocuments = [length |-> 0, paths |-> {}]
    /\ seenFieldPaths = {}
    /\ totalSampled = 0
    /\ iterationsWithoutNewFields = 0
    /\ iteration = 0
    /\ batchLength = -1
    /\ newFieldsFound = -1
    /\ prevBatchStable = FALSE
    /\ sampleCalls = 0
    /\ countCalls = 0
    /\ findCalls = 0
    /\ fetched = NothingFetched

\* fixed sampling: documents = await collection.find().limit(sampleSize).toArray()
FixedFetch ==
    /\ pc = "next"
    /\ collIndex < Len(collections)
    /\ ~UseDynamicSampling(smartScan)
    /\ \E batch \in Batches(CurrentCollection,
                            Min(FIXED_SAMPLE_SIZE, CurrentCollection.totalDocCount)) :
          /\ allDocuments' = batch
          /\ totalSampled' = batch.length
          /\ fetched' = Fetched(fetched, batch)
    /\ findCalls' = findCalls + 1
    /\ pc' = "finish"
    /\ UNCHANGED <<smartScan, collections, collIndex, allEntities, outcomes,
                   totalDocCount, seenFieldPaths, iterationsWithoutNewFields,
                   iteration, batchLength, newFieldsFound, prevBatchStable,
                   sampleCalls, countCalls, mergeVars>>
    /\ UNCHANGED orderVars

\* fixed sampling whose find() rejects: caught by the loop of introspect
FixedFetchFails ==
    /\ pc = "next"
    /\ collIndex < Len(collections)
    /\ ~UseDynamicSampling(smartScan)
    /\ allEntities' = EntitiesAfterFailure(allEntities, CurrentCollection,
                                           allDocuments)
    /\ outcomes' = Append(outcomes, RunOutcome(CurrentCollection.name, "error",
                                               sampleCalls, countCalls, findCalls + 1))
    /\ collIndex' = collIndex + 1
    /\ LocalsCleared
    /\ UNCHANGED <<pc, smartScan, collections, mergeVars>>
    /\ UNCHANGED orderVars

\* countDocuments() returns 0: dynamicSampling returns no documents and
\* introspectCollection the minimal schema, which introspect pushes
CountEmpty ==
    /\ pc = "next"
    /\ collIndex < Len(collections)
    /\ UseDynamicSampling(smartScan)
    /\ IsEmptyCount(CurrentCollection.totalDocCount)
    /\ allEntities' = Append(allEntities, EntityFor(CurrentCollection,
                                                    [length |-> 0, paths |-> {}]))
    /\ outcomes' = Append(outcomes, RunOutcome(CurrentCollection.name, "ok",
                                               sampleCalls, countCalls + 1, findCalls))
    /\ collIndex' = collIndex + 1
    /\ LocalsCleared
    /\ UNCHANGED <<pc, smartScan, collections, mergeVars>>
    /\ UNCHANGED orderVars

\* countDocuments() returns a positive count: the locals of the loop are set up
CountDocuments ==
    /\ pc = "next"
    /\ collIndex < Len(collections)
    /\ UseDynamicSampling(smartScan)
    /\ ~IsEmptyCount(CurrentCollection.totalDocCount)
    /\ pc' = "loop"
    /\ totalDocCount' = CurrentCollection.totalDocCount
    /\ allDocuments' = [length |-> 0, paths |-> {}]
    /\ seenFieldPaths' = {}
    /\ totalSampled' = 0
    /\ iterationsWithoutNewFields' = 0
    /\ iteration' = 0
    /\ batchLength' = -1
    /\ newFieldsFound' = -1
    /\ prevBatchStable' = FALSE
    /\ sampleCalls' = 0
    /\ countCalls' = countCalls + 1
    /\ findCalls' = 0
    /\ fetched' = NothingFetched
    /\ UNCHANGED <<smartScan, collections, collIndex, allEntities, outcomes, mergeVars>>
    /\ UNCHANGED orderVars

\* size of the $sample stage of the next iteration
NextRemaining == RemainingSamples(BatchSize(iteration + 1), totalSampled)

\* the while condition is false, or remainingSamples <= 0
LoopExit ==
    /\ pc = "loop"
    /\ \/ ~LoopGuard(totalSampled, iterationsWithoutNewFields)
       \/ NextRemaining <= 0
    /\ pc' = "finish"
    /\ UNCHANGED <<mergeVars, samplerVars>>
    /\ UNCHANGED orderVars

\* one iteration whose batch has documents
SampleBatch ==
    /\ pc = "loop"
    /\ LoopGuard(totalSampled, iterationsWithoutNewFields)
    /\ NextRemaining > 0
    /\ \E batch \in Batches(CurrentCollection, Min(NextRemaining, totalDocCount)) :
          /\ batch.length > 0
          /\ iteration' = iteration + 1
          /\ sampleCalls' = sampleCalls + 1
          /\ seenFieldPaths' = seenFieldPaths \cup batch.paths
          /\ batchLength' = batch.length
          /\ newFieldsFound' = NewFieldsFound(seenFieldPaths, seenFieldPaths')
          /\ prevBatchStable' = (newFieldsFound = 0)
          /\ allDocuments' = [length |-> allDocuments.length + batch.length,
                              paths  |-> allDocuments.paths \cup batch.paths]
          /\ totalSampled' = AddSampled(totalSampled, batch.length)
          /\ fetched' = Fetched(fetched, batch)
          /\ iterationsWithoutNewFields' =
                 StabilityCounter(iterationsWithoutNewFields, newFieldsFound')
          /\ pc' = IF EarlyExit(totalSampled', totalDocCount) THEN "finish" ELSE "loop"
    /\ UNCHANGED <<smartScan, collections, collIndex, allEntities, outcomes, totalDocCount,
                   countCalls, findCalls, mergeVars>>
    /\ UNCHANGED orderVars

\* one iteration whose batch is empty: if (batch.length === 0) break
SampleEmpty ==
    /\ pc = "loop"
    /\ LoopGuard(totalSampled, iterationsWithoutNewFields)
    /\ NextRemaining > 0
    /\ iteration' = iteration + 1
    /\ sampleCalls' = sampleCalls + 1
    /\ batchLength' = 0
    /\ pc' = "finish"
    /\ UNCHANGED <<smartScan, collections, collIndex, allEntities, outcomes, totalDocCount,
                   allDocuments, seenFieldPaths, totalSampled,
                   iterationsWithoutNewFields, newFieldsFound, prevBatchStable,
                   countCalls, findCalls, fetched, mergeVars>>
    /\ UNCHANGED orderVars

\* one iteration whose aggregate() rejects: the error leaves dynamicSampling and
\* introspectCollection and is caught by the loop of introspect
SampleFails ==
    /\ pc = "loop"
    /\ LoopGuard(totalSampled, iterationsWithoutNewFields)
    /\ NextRemaining > 0
    /\ allEntities' = EntitiesAfterFailure(allEntities, CurrentCollection,
                                           allDocuments)
    /\ outcomes' = Append(outcomes, RunOutcome(CurrentCollection.name, "error",
                                               sampleCalls + 1, countCalls, findCalls))
    /\ collIndex' = collIndex + 1
    /\ pc' = "next"
    /\ LocalsCleared
    /\ UNCHANGED <<smartScan, collections, mergeVars>>
    /\ UNCHANGED orderVars

\* the documents are there (dynamicSampling or find() has returned);
\* introspectCollection builds the entity that introspect pushes
CollectionDone ==
    /\ pc = "finish"
    /\ allEntities' = Append(allEntities, EntityFor(CurrentCollection,
                                                    allDocuments))
    /\ outcomes' = Append(outcomes, RunOutcome(CurrentCollection.name, "ok",
                                               sampleCalls, countCalls, findCalls))
    /\ collIndex' = collIndex + 1
    /\ pc' = "next"
    /\ LocalsCleared
    /\ UNCHANGED <<smartScan, collections, mergeVars>>
    /\ UNCHANGED orderVars

\* return allEntities
IntrospectReturns ==
    /\ pc = "next"
    /\ collIndex = Len(collections)
    /\ pc' = "returned"
    /\ UNCHANGED <<mergeVars, samplerVars>>
    /\ UNCHANGED orderVars

NextSampling ==
    \/ FixedFetch
    \/ FixedFetchFails
    \/ CountEmpty
    \/ CountDocuments
    \/ LoopExit
    \/ SampleBatch
    \/ SampleEmpty
    \/ SampleFails
    \/ CollectionDone
    \/ IntrospectReturns

SpecSampling == InitSampling /\ [][NextSampling]_vars

\* every await of introspect settles, and the function resumes when it does
SpecSamplingFair == SpecSampling /\ WF_vars(NextSampling)

(***************************************************************************)
(* Claims about dynamicSampling and introspect.                            *)
(***************************************************************************)
InRun == pc \in {"loop", "finish"}

\* the next step issues no aggregate($sample) call
NoSampleCall == sampleCalls' <= sampleCalls

ReachedFraction == totalSampled > 0 /\ totalSampled * 10 >= totalDocCount * 8

BatchProcessed == pc = "loop" /\ totalSampled' > totalSampled

LastTwoBatchesStable == sampleCalls >= 2 /\ newFieldsFound = 0 /\ prevBatchStable

\* the run is over, and neither a hard stop nor an empty batch ended it
EndedByConvergence ==
    /\ smartScan
    /\ pc = "finish"
    /\ batchLength > 0
    /\ totalSampled < MAX_SAMPLES
    /\ ~ReachedFraction

IsUniformFive(coll) == coll.uniform /\ coll.numPaths = 5 /\ coll.totalDocCount > 0

TypeNameOf(name) == toPascalCase(singularize(name))

EntitiesOf(name) ==
    { n \in DOMAIN allEntities : allEntities[n].name = TypeNameOf(name)
                                 \/ allEntities[n].sourceName = name }

IsIdOnly(entity) ==
    /\ Len(entity.fields) = 1
    /\ entity.fields[1].name = IdName
    /\ entity.fields[1].type = ID
    /\ ~entity.fields[1].isArray
    /\ ~entity.fields[1].isNullable
    /\ entity.fieldPaths = {}

\* C15: for a collection whose count is 0 no sample call is issued, no error
\* is raised, and the result holds one entity for it whose only field is _id
\* (ID, not an array, not nullable), with nothing derived from documents
C15_EmptyCollection ==
    \A k \in DOMAIN outcomes :
        (collections[k].totalDocCount = 0 /\ outcomes[k].countCalls = 1) =>
            /\ outcomes[k].status = "ok"
            /\ outcomes[k].sampleCalls = 0
            /\ Cardinality(EntitiesOf(collections[k].name)) = 1
            /\ \A n \in EntitiesOf(collections[k].name) :
                  /\ allEntities[n].name = TypeNameOf(collections[k].name)
                  /\ IsIdOnly(allEntities[n])

\* introspect has returned the minimal entity of an empty collection next to
\* the entity of a collection with documents
C15_Witness ==
    /\ pc = "returned"
    /\ Len(collections) = 2
    /\ collections[2].totalDocCount = 0
    /\ Len(allEntities) = 2
    /\ allEntities[1].sampled > 0
    /\ allEntities[2] = MinimalEntity(collections[2])
    /\ allEntities[2].name = <<"M","o","v","i","e">>

\* C16: if the sample call fails on some batch of a collection's run, the
\* result holds no entity of that collection
C16_NoPartialSchema ==
    \A k \in DOMAIN outcomes :
        outcomes[k].status = "error" => EntitiesOf(collections[k].name) = {}

\* the sample call of the second collection failed after a batch that
\* succeeded, and the result holds the first collection's entity only
C16_Witness ==
    /\ pc = "returned"
    /\ Len(collections) = 2
    /\ outcomes[1].status = "ok"
    /\ outcomes[2].status = "error"
    /\ outcomes[2].sampleCalls >= 2
    /\ Len(allEntities) = 1
    /\ allEntities[1].sourceName = Users

\* C17: a failure of the sample call reaches the caller of introspect as an
\* error: introspect never returns a result after such a failure
C17_FailureSurfaced ==
    pc = "returned" =>
        \A k \in DOMAIN outcomes :
            ~(outcomes[k].status = "error" /\ outcomes[k].sampleCalls > 0)

\* C19: when a run ends, every field path of the collection is in the
\* discovered set (here for the runs all of whose batches had documents)
C19_CompleteDiscovery ==
    (pc = "finish" /\ batchLength > 0)
        => seenFieldPaths = 1..CurrentCollection.numPaths

\* C18: a document whose analysis throws is skipped: the run over the sampled
\* documents is never aborted
C18_FailureIsolation == pc # "failed"

(***************************************************************************)
(* Nested types: the analysis loop over documents whose field a holds      *)
(* objects of differing shape.                                             *)
(***************************************************************************)
KeyDollar == <<"$","r","e","f">>

NestedValuesA ==
    { PopulatedX,
      Obj(<< <<KeyX, FiveAndHalf>> >>),
      Obj(<< <<KeyX, Str("plain")>> >>),
      Obj(<< <<KeyX, Null>> >>),
      PopulatedY,
      Obj(<< <<KeyX, Five>>, <<KeyY, Str("plain")>> >>),
      Obj(<< <<KeyB, Bool>>, <<KeyDollar, Five>> >>),
      Obj(<< <<KeyX, PopulatedY>> >>),
      Obj(<< <<KeyX, Arr(<<Null>>)>> >>),
      Arr(<<PopulatedY>>),
      Str("plain"),
      Obj(<< >>) }

KeyProfileSettings == <<"p","r","o","f","i","l","e","_","s","e","t","t","i","n","g","s">>

KeyProfile == <<"p","r","o","f","i","l","e">>

KeySettings == <<"s","e","t","t","i","n","g","s">>

\* {profile_settings: {x: 5}} and {profile: {settings: {y: "s"}}}
RootStructureDoc == Doc(<< <<KeyProfileSettings, PopulatedX>> >>)

ChildStructureDoc == Doc(<< <<KeyProfile, Obj(<< <<KeySettings, PopulatedY>> >>)>> >>)

NestedDocSet ==
    { Doc(<< >>), RootStructureDoc, ChildStructureDoc }
    \cup { Doc(<< <<KeyA, v>> >>) : v \in NestedValuesA }

InitNested ==
    /\ pc = "fetchNested"
    /\ MergeIdle
    /\ SamplerIdle

\* introspectCollection up to the analysis loop, over these documents
FetchNested ==
    /\ pc = "fetchNested"
    /\ \E docs \in SeqsUpTo(NestedDocSet, MaxDocs) :
         /\ documents' = docs
         /\ IF Len(docs) = 0
            THEN /\ result' = MinimalSchema
                 /\ pc' = "done"
                 /\ fieldMap' = fieldMap
            ELSE /\ result' = result
                 /\ pc' = "analyze"
                 /\ fieldMap' = <<IdField(Len(docs))>>
    /\ UNCHANGED <<i, nestedTypes, samplerVars>>
    /\ UNCHANGED orderVars

NextNested == FetchNested \/ AnalyzeDocument \/ AnalyzeThrows \/ Finalize

SpecNested == InitNested /\ [][NextNested]_vars

\* the object the analysis looks at for field a of document n, if populated
ObjectOfA(n) == ValueToAnalyze(ValueAt(documents[n], KeyA))

\* the merged documents in which field a is observed as a populated object
PopulatedObservations ==
    { n \in 1..i : /\ PresentNonNull(documents[n], KeyA)
                   /\ IsPopulatedObject(ObjectOfA(n)) }

IsInternalKey(key) == startsWith(key, <<"_","_">>) \/ startsWith(key, <<"$">>)

ChildKeys(v) == { v.entries[n][1] : n \in DOMAIN v.entries }

\* the child field names the observations so far call for
ChildNamesObserved ==
    { sanitizeFieldName(key) :
        key \in { k \in UNION { ChildKeys(ObjectOfA(n)) : n \in PopulatedObservations } :
                    ~IsInternalKey(k) } }

NamesOf(fields) == { fields[n].name : n \in DOMAIN fields }

NestedAFields == MapGet(nestedTypes, NestedA).fields

NameX == <<"x">>

\* the first two merged documents both hold a populated object in a whose
\* child x is a non-null scalar, of differing observed types
TwoScalarChildObservations ==
    /\ pc = "analyze"
    /\ i = 2
    /\ PopulatedObservations = {1, 2}
    /\ \A n \in {1, 2} : /\ PresentNonNull(ObjectOfA(n), KeyX)
                         /\ IsScalarValue(ValueAt(ObjectOfA(n), KeyX))
    /\ mapMongoDBType(ValueAt(ObjectOfA(1), KeyX)) # mapMongoDBType(ValueAt(ObjectOfA(2), KeyX))

\* C20: the nested type registered for a field observed as a populated object
\* holds the union of the child keys of all those observations, a child field
\* is never removed by a later observation, and a child observed with two
\* differing scalar types gets the type the top-level merge table gives
C20_NestedUnion ==
    /\ []((pc \in {"analyze", "done", "failed"} /\ PopulatedObservations # {})
            => (/\ MapHas(nestedTypes, NestedA)
                /\ NamesOf(NestedAFields) = ChildNamesObserved))
    /\ [][MapHas(nestedTypes, NestedA)
            => (/\ MapHas(nestedTypes', NestedA)
                /\ NamesOf(NestedAFields) \subseteq NamesOf(NestedAFields'))]_vars
    /\ [](TwoScalarChildObservations
            => FieldOf(NestedAFields, NameX).type =
                   MergeTable(mapMongoDBType(ValueAt(ObjectOfA(1), KeyX)),
                              mapMongoDBType(ValueAt(ObjectOfA(2), KeyX))))

\* a = {x: 5}, then {y: "s"} inside an array, then {x: 5.5}: the nested type
\* has both children and x has been widened to Float
C20_Witness ==
    /\ pc = "done"
    /\ Len(documents) = 3
    /\ PopulatedObservations = {1, 2, 3}
    /\ ValueAt(documents[2], KeyA).kind = "array"
    /\ NamesOf(NestedAFields) = {NameX, KeyY}
    /\ FieldOf(NestedAFields, NameX).type = Float

(***************************************************************************)
(* MongoDBConnector.extractFieldPaths.  A path is the string the code      *)
(* builds, as a sequence of characters.                                    *)
(***************************************************************************)
\* a join that leaves the separator out
JoinPath_NoSeparator(prefix, key) == prefix \o key

\* const fieldPath = prefix ? `${prefix}.${key}` : key
JoinPath(prefix, key) == IF prefix = << >> THEN key ELSE prefix \o <<".">> \o key

\* `${fieldPath}[]` with fieldPath = prefix || 'array'
ArrayPath(prefix) ==
    (IF prefix = << >> THEN <<"a","r","r","a","y">> ELSE prefix) \o <<"[","]">>

\* a test that knows the '$' prefix only
SkipInternal_DollarOnly(key) == startsWith(key, <<"$">>)

\* if (key.startsWith('__') || key.startsWith('$')) continue
SkipInternal(key) == startsWith(key, <<"_","_">>) \/ startsWith(key, <<"$">>)

RECURSIVE extractFieldPaths(_, _, _)
RECURSIVE ExtractEntries(_, _, _, _)

extractFieldPaths(obj, prefix, fieldPaths) ==
    IF obj.kind = "null" THEN fieldPaths
    ELSE IF ~TypeofObject(obj) THEN fieldPaths
    ELSE IF obj.kind = "array" THEN
        IF Len(obj.elems) > 0
        THEN extractFieldPaths(obj.elems[1], ArrayPath(prefix),
                               fieldPaths \cup {ArrayPath(prefix)})
        ELSE fieldPaths
    ELSE ExtractEntries(ObjectEntries(obj), 1, prefix, fieldPaths)

\* the loop over Object.entries(obj), from entry n on
ExtractEntries(entries, n, prefix, fieldPaths) ==
    IF n > Len(entries) THEN fieldPaths
    ELSE LET key == entries[n][1]
             value == entries[n][2]
             fieldPath == JoinPath(prefix, key)
         IN  IF SkipInternal(key)
             THEN ExtractEntries(entries, n + 1, prefix, fieldPaths)
             ELSE IF isBinaryType(value)
             THEN ExtractEntries(entries, n + 1, prefix, fieldPaths \cup {fieldPath})
             ELSE IF value.kind # "null" /\ TypeofObject(value)
             THEN ExtractEntries(entries, n + 1, prefix,
                      extractFieldPaths(value, fieldPath, fieldPaths \cup {fieldPath}))
             ELSE ExtractEntries(entries, n + 1, prefix, fieldPaths \cup {fieldPath})

(***************************************************************************)
(* A collection run with smart scan, on the level of documents: the        *)
(* sampled documents pass through extractFieldPaths and are then analyzed  *)
(* by introspectCollection.                                                *)
(***************************************************************************)
KeyLetterB == <<"b">>

KeyLetterC == <<"c">>

KeyVersion == <<"_","_","v">>

KeyZ == <<"z">>

KeyW == <<"w">>

One == Num(0, 1, 0)

\* {b: [{c: 1}]}
NestedArrayValue == Obj(<< <<KeyLetterB, Arr(<< Obj(<< <<KeyLetterC, One>> >>) >>)>> >>)

PathValuesA ==
    { BinaryValue,
      Arr(<<BinaryValue>>),
      NestedArrayValue,
      Arr(<< >>),
      Obj(<< <<KeyDollar, Obj(<< <<KeyZ, Five>> >>)>>, <<KeyX, Five>> >>),
      Arr(<< Obj(<< <<KeyVersion, Obj(<< <<KeyW, Five>> >>)>>, <<KeyY, Str("plain")>> >>) >>),
      Str("plain"),
      Null,
      Arr(<<Null>>) }

PathDocSet ==
    { Doc(<< >>),
      Doc(<< <<KeyDollar, Obj(<< <<KeyZ, Five>> >>)>> >>),
      Doc(<< <<KeyVersion, Five>>, <<KeyA, Five>> >>) }
    \cup { Doc(<< <<KeyA, v>> >>) : v \in PathValuesA }

InitPaths ==
    /\ pc = "sample"
    /\ MergeIdle
    /\ SamplerIdle

\* the documents of the run arrive
SampleDocuments ==
    /\ pc = "sample"
    /\ \E docs \in SeqsUpTo(PathDocSet, MaxDocs) \ {<< >>} :
         documents' = docs
    /\ pc' = "extract"
    /\ UNCHANGED <<i, fieldMap, nestedTypes, result, samplerVars>>
    /\ UNCHANGED orderVars

\* for (const doc of batch) this.extractFieldPaths(doc, '', seenFieldPaths)
ExtractDocument ==
    /\ pc = "extract"
    /\ i < Len(documents)
    /\ seenFieldPaths' = extractFieldPaths(documents[i + 1], << >>, seenFieldPaths)
    /\ i' = i + 1
    /\ UNCHANGED <<pc, documents, fieldMap, nestedTypes, result, smartScan,
                   collections, collIndex, allEntities, outcomes, totalDocCount,
                   allDocuments, totalSampled, iterationsWithoutNewFields, iteration,
                   batchLength, newFieldsFound, prevBatchStable, sampleCalls,
                   countCalls, findCalls, fetched>>
    /\ UNCHANGED orderVars

\* dynamicSampling has returned: introspectCollection sets up its field map
StartAnalysis ==
    /\ pc = "extract"
    /\ i = Len(documents)
    /\ i' = 0
    /\ fieldMap' = <<IdField(Len(documents))>>
    /\ nestedTypes' = << >>
    /\ pc' = "analyze"
    /\ UNCHANGED <<documents, result, samplerVars>>
    /\ UNCHANGED orderVars

NextPaths ==
    \/ SampleDocuments
    \/ ExtractDocument
    \/ StartAnalysis
    \/ AnalyzeDocument
    \/ AnalyzeThrows
    \/ Finalize

SpecPaths == InitPaths /\ [][NextPaths]_vars

(***************************************************************************)
(* Claims about extractFieldPaths and the keys and values it and the       *)
(* analysis leave out.                                                     *)
(***************************************************************************)
\* the documents extractFieldPaths has been applied to
ExtractedCount == IF pc = "extract" THEN i ELSE Len(documents)

ExtractedDocs == { documents[n] : n \in 1..ExtractedCount }

PathA == <<"a">>

PathAElements == <<"a","[","]">>

\* field a holds a binary value, or an array whose first element is one
IsBinaryField(doc) ==
    /\ HasKey(doc, KeyA)
    /\ ValueAt(doc, KeyA).kind # "null"
    /\ isBinaryType(ValueToAnalyze(ValueAt(doc, KeyA)))

\* C24: a field whose value (or first array element) is binary contributes
\* only its own path, is typed JSON and registers no nested type
C24_BinaryOpacity ==
    (/\ pc \in {"extract", "analyze", "done"}
     /\ ExtractedDocs # {}
     /\ \A doc \in ExtractedDocs : IsBinaryField(doc))
        => /\ { path \in seenFieldPaths : startsWith(path, PathA) }
                  \subseteq {PathA, PathAElements}
           /\ (pc = "done" => /\ FinalA.type = JSON
                              /\ result.nestedTypes = << >>)

ReservedKeys == {KeyDollar, KeyVersion}

\* the names the program would give a field and a nested type of a reserved
\* key, and the keys that occur beneath reserved keys only
ReservedNames == { sanitizeFieldName(key) : key \in ReservedKeys } \cup {KeyZ, KeyW}

ReservedTypeNames ==
    { parent \o toPascalCase(key) : parent \in {typeName, NestedA}, key \in ReservedKeys }

\* no segment of the path is a reserved key or a key beneath one
AvoidsReserved(path) ==
    \A n \in DOMAIN path :
        /\ path[n] \notin {"$", "z", "w"}
        /\ ~(path[n] = "_" /\ n < Len(path) /\ path[n + 1] = "_")

\* a document with a reserved key has been sampled
HasReservedKey(doc) ==
    \/ \E key \in ReservedKeys : HasKey(doc, key)
    \/ /\ PresentNonNull(doc, KeyA)
       /\ ValueToAnalyze(ValueAt(doc, KeyA)).kind = "object"
       /\ \E key \in ReservedKeys : HasKey(ValueToAnalyze(ValueAt(doc, KeyA)), key)

\* C25: a key beginning with '__' or '$', at any depth, contributes no path,
\* becomes no field of the top-level or a nested schema, and nothing beneath
\* it is visited
C25_ReservedExcluded ==
    /\ \A path \in seenFieldPaths : AvoidsReserved(path)
    /\ NamesOf(fieldMap) \cap ReservedNames = {}
    /\ \A n \in DOMAIN nestedTypes :
          /\ nestedTypes[n].name \notin ReservedTypeNames
          /\ NamesOf(nestedTypes[n].fields) \cap ReservedNames = {}
    /\ NamesOf(result.mainEntity.fields) \cap ReservedNames = {}

\* reserved keys at the top level, in an object and in an array element have
\* been sampled and analyzed; their siblings were found
C25_Witness ==
    /\ pc = "done"
    /\ Len(documents) = 3
    /\ \E key \in ReservedKeys : HasKey(documents[1], key)
    /\ HasReservedKey(documents[2]) /\ ValueAt(documents[2], KeyA).kind = "object"
    /\ HasReservedKey(documents[3]) /\ ValueAt(documents[3], KeyA).kind = "array"
    /\ {<<"a",".","x">>, <<"a","[","]",".","y">>} \subseteq seenFieldPaths
    /\ MapHas(result.nestedTypes, NestedA)
    /\ NamesOf(MapGet(result.nestedTypes, NestedA).fields) = {KeyX, KeyY}

\* the paths of a value under a prefix, as the canonical form lays them down
RECURSIVE CanonicalPaths(_, _)
CanonicalPaths(value, prefix) ==
    IF value.kind = "array" THEN
        IF value.elems = << >> THEN {}
        ELSE {prefix \o <<"[","]">>} \cup CanonicalPaths(value.elems[1], prefix \o <<"[","]">>)
    ELSE IF value.kind = "object" THEN
        UNION { LET key == value.entries[n][1]
                    path == IF prefix = << >> THEN key ELSE prefix \o <<".">> \o key
                IN  IF IsInternalKey(key) THEN {}
                    ELSE {path} \cup CanonicalPaths(value.entries[n][2], path)
                : n \in DOMAIN value.entries }
    ELSE {}

\* {a: {b: [{c: 1}]}}
ExampleDocument == Obj(<< <<KeyA, NestedArrayValue>> >>)

ExamplePaths ==
    { <<"a">>, <<"a",".","b">>, <<"a",".","b","[","]">>,
      <<"a",".","b","[","]",".","c">> }

C28_EmptyArrayPath ==
    (\E doc \in ExtractedDocs :
        HasKey(doc, KeyA) /\ ValueAt(doc, KeyA) = Arr(<< >>))
        => PathAElements \in seenFieldPaths

(***************************************************************************)
(* Claims about nested-type names, collection runs and the loop of         *)
(* dynamicSampling.                                                        *)
(***************************************************************************)
\* `${parentTypeName}${TypeMapper.toPascalCase(key)}` of both structures
CollidingName == typeName \o toPascalCase(KeyProfileSettings)

\* the merged documents that carry one of the two colliding structures
CollidingObservations ==
    { n \in 1..i : documents[n] \in {RootStructureDoc, ChildStructureDoc} }

FirstColliding == CHOOSE n \in CollidingObservations :
                      \A k \in CollidingObservations : n <= k

\* C21: when two field paths synthesize the same nested-type name the registry
\* keeps one entry under it, with the fields of the structure seen first
C21_NamingCollision ==
    (/\ pc \in {"analyze", "done", "failed"}
     /\ {documents[n] : n \in CollidingObservations}
            = {RootStructureDoc, ChildStructureDoc})
        => /\ Cardinality({ n \in DOMAIN nestedTypes :
                              nestedTypes[n].name = CollidingName }) = 1
           /\ NamesOf(MapGet(nestedTypes, CollidingName).fields) =
                  IF documents[FirstColliding] = RootStructureDoc
                  THEN {KeyX} ELSE {KeyY}

C26_Termination ==
    /\ [][(pc = "loop" /\ pc' = "loop") =>
             /\ totalSampled' > totalSampled
             /\ totalSampled' <= MAX_SAMPLES]_vars
    /\ <>(pc = "returned")

\* introspect has returned after a run of 50 sample calls and more
C26_Witness ==
    /\ pc = "returned"
    /\ \E k \in DOMAIN outcomes : outcomes[k].sampleCalls > 50

\* C30: at the end of an adaptive run the batch count is the number of sample
\* calls that returned documents, the total sampled is the sum of the batch
\* sizes and the number of documents handed on, the unique field-path count is
\* the number of paths of those documents; the path set only grows in a run
C30_MetricsConsistency ==
    /\ []((smartScan /\ pc = "finish") =>
            /\ iteration = fetched.batches
            /\ totalSampled = fetched.documents
            /\ allDocuments.length = fetched.documents
            /\ Cardinality(seenFieldPaths) = Cardinality(fetched.paths))
    /\ [][(pc = "loop" /\ pc' \in {"loop", "finish"}) =>
             seenFieldPaths \subseteq seenFieldPaths']_vars

(***************************************************************************)
(* introspect over several collections with the analysis of each run       *)
(* spelled out: every call of introspectCollection declares its own field  *)
(* map and registry of nested types.                                       *)
(***************************************************************************)
MaxRunDocs == 2

RunCollection(name) ==
    [name |-> name, typeName |-> toPascalCase(singularize(name))]

\* config.collections
RunStores ==
    { <<RunCollection(Users), RunCollection(Movies)>>,
      <<RunCollection(Movies), RunCollection(Users)>>,
      <<RunCollection(Users), RunCollection(Users)>> }

RunDocSet ==
    { Doc(<< >>),
      Doc(<< <<KeyA, PopulatedX>> >>),
      Doc(<< <<KeyA, PopulatedY>> >>),
      Doc(<< <<KeyA, Five>> >>),
      Doc(<< <<KeyB, Str("plain")>> >>),
      Doc(<< <<KeyA, Arr(<<Null>>)>> >>) }

\* a map that still holds what the run before left in it
NewMap_Kept(previous) == previous

\* new Map()
NewMap(previous) == << >>

\* the schema introspectCollection returns for a collection without documents
MinimalSchemaOf(coll) ==
    [mainEntity  |-> [name |-> coll.typeName,
                      fields |-> <<DropOccurrences(IdField(0))>>],
     nestedTypes |-> << >>]

InitRuns ==
    /\ pc = "next"
    /\ MergeIdle
    /\ smartScan = FALSE
    /\ collections \in RunStores
    /\ collIndex = 0
    /\ allEntities = << >>
    /\ outcomes = << >>
    /\ totalDocCount = 0
    /\ allDocuments = [length |-> 0, paths |-> {}]
    /\ seenFieldPaths = {}
    /\ totalSampled = 0
    /\ iterationsWithoutNewFields = 0
    /\ iteration = 0
    /\ batchLength = -1
    /\ newFieldsFound = -1
    /\ prevBatchStable = FALSE
    /\ sampleCalls = 0
    /\ countCalls = 0
    /\ findCalls = 0
    /\ fetched = NothingFetched

\* introspectCollection up to the analysis loop for the next collection
StartRun ==
    /\ pc = "next"
    /\ collIndex < Len(collections)
    /\ \E docs \in SeqsUpTo(RunDocSet, MaxRunDocs) :
         /\ documents' = docs
         /\ IF Len(docs) = 0
            THEN /\ result' = MinimalSchemaOf(CurrentCollection)
                 /\ pc' = "runDone"
                 /\ UNCHANGED <<fieldMap, nestedTypes>>
            ELSE /\ result' = NoResult
                 /\ pc' = "runAnalyze"
                 /\ nestedTypes' = NewMap(nestedTypes)
                 /\ fieldMap' = MapSet(NewMap(fieldMap), IdName, IdField(Len(docs)))
    /\ i' = 0
    /\ UNCHANGED samplerVars
    /\ UNCHANGED orderVars

\* one iteration of "for (const doc of documents)" that returns normally
RunAnalyzeDocument ==
    /\ pc = "runAnalyze"
    /\ i < Len(documents)
    /\ LET out == analyzeDocumentWithNesting(documents[i + 1], fieldMap,
                      Len(documents), CurrentCollection.typeName, << >>,
                      nestedTypes)
       IN  /\ ~out.threw
           /\ fieldMap' = out.fieldMap
           /\ nestedTypes' = out.nestedTypes
    /\ i' = i + 1
    /\ UNCHANGED <<pc, documents, result, samplerVars>>
    /\ UNCHANGED orderVars

\* one iteration that throws
RunAnalyzeThrows ==
    /\ pc = "runAnalyze"
    /\ i < Len(documents)
    /\ analyzeDocumentWithNesting(documents[i + 1], fieldMap, Len(documents),
           CurrentCollection.typeName, << >>, nestedTypes).threw
    /\ pc' = "runFailed"
    /\ UNCHANGED <<mergeVars, samplerVars>>
    /\ UNCHANGED orderVars

\* after the loop: the schema of the collection
RunFinalize ==
    /\ pc = "runAnalyze"
    /\ i = Len(documents)
    /\ result' = [mainEntity  |-> [name |-> CurrentCollection.typeName,
                                   fields |-> FinalFields(fieldMap, Len(documents))],
                  nestedTypes |-> nestedTypes]
    /\ pc' = "runDone"
    /\ UNCHANGED <<documents, i, fieldMap, nestedTypes, samplerVars>>
    /\ UNCHANGED orderVars

\* allEntities.push(result.mainEntity); allEntities.push(...result.nestedTypes)
RunCollected ==
    /\ pc = "runDone"
    /\ allEntities' = (allEntities \o <<result.mainEntity>>) \o result.nestedTypes
    /\ collIndex' = collIndex + 1
    /\ pc' = "next"
    /\ UNCHANGED <<mergeVars, smartScan, collections, outcomes, totalDocCount,
                   allDocuments, seenFieldPaths, totalSampled,
                   iterationsWithoutNewFields, iteration, batchLength,
                   newFieldsFound, prevBatchStable, sampleCalls, countCalls,
                   findCalls, fetched>>
    /\ UNCHANGED orderVars

\* catch (error) { Logger.warning(...) }: on to the next collection
RunCaught ==
    /\ pc = "runFailed"
    /\ collIndex' = collIndex + 1
    /\ pc' = "next"
    /\ UNCHANGED <<mergeVars, smartScan, collections, allEntities, outcomes,
                   totalDocCount, allDocuments, seenFieldPaths, totalSampled,
                   iterationsWithoutNewFields, iteration, batchLength,
                   newFieldsFound, prevBatchStable, sampleCalls, countCalls,
                   findCalls, fetched>>
    /\ UNCHANGED orderVars

NextRuns ==
    \/ StartRun
    \/ RunAnalyzeDocument
    \/ RunAnalyzeThrows
    \/ RunFinalize
    \/ RunCollected
    \/ RunCaught
    \/ IntrospectReturns

SpecRuns == InitRuns /\ [][NextRuns]_vars

\* the run of introspectCollection over the documents of one collection alone
RECURSIVE AnalyzeAllAs(_, _, _, _, _)
AnalyzeAllAs(coll, docs, n, fm, nt) ==
    IF n > Len(docs) THEN Outcome(fm, nt, FALSE)
    ELSE LET out == analyzeDocumentWithNesting(docs[n], fm, Len(docs),
                                               coll.typeName, << >>, nt)
         IN  IF out.threw THEN out
             ELSE AnalyzeAllAs(coll, docs, n + 1, out.fieldMap, out.nestedTypes)

IntrospectCollectionAlone(coll, docs) ==
    IF Len(docs) = 0
    THEN [threw |-> FALSE, schema |-> MinimalSchemaOf(coll)]
    ELSE LET out == AnalyzeAllAs(coll, docs, 1, <<IdField(Len(docs))>>, << >>)
         IN  [threw  |-> out.threw,
              schema |-> [mainEntity  |-> [name |-> coll.typeName,
                                           fields |-> FinalFields(out.fieldMap,
                                                                  Len(docs))],
                          nestedTypes |-> out.nestedTypes]]

\* C23: the schema of a collection introspected after another one by the same
\* connector is the schema of that collection alone on the same documents,
\* and a run fails only if it fails alone
C23_RunIsolation ==
    /\ pc = "runDone" =>
          /\ ~IntrospectCollectionAlone(CurrentCollection, documents).threw
          /\ result = IntrospectCollectionAlone(CurrentCollection, documents).schema
    /\ pc = "runFailed" =>
          IntrospectCollectionAlone(CurrentCollection, documents).threw

\* the first run registered a nested type for field a; the second run, over a
\* document without that field, has produced a schema with _id and b_c only
C23_Witness ==
    /\ pc = "runDone"
    /\ collIndex = 1
    /\ Len(allEntities) = 2
    /\ HasField(allEntities[1].fields, NameA)
    /\ documents = << Doc(<< <<KeyB, Str("plain")>> >>) >>
    /\ Len(result.mainEntity.fields) = 2
    /\ ~HasField(result.mainEntity.fields, NameA)
    /\ result.nestedTypes = << >>

(***************************************************************************)
(* One adaptive run with its sample calls split into the call and its      *)
(* settlement, over documents that tell which call returned them, followed *)
(* by the analysis loop of introspectCollection over the array that        *)
(* dynamicSampling returns.  The variable documents is that array.         *)
(***************************************************************************)
MaxBatchDocs == 2

\* totalDocCount of the collections sampled
OrderCounts == {3, 1000}

\* a document of the batch that sample call number call returns
OrderDoc(call, wide) ==
    Doc(<< <<KeyA, Num(0, call, 0)>> >>
        \o (IF wide THEN << <<KeyX, Str("plain")>> >> ELSE << >>))

BatchOf(doc) == ValueAt(doc, KeyA).lo

\* a push that puts the batch in front of the documents
PushBatch_Front(all, batch) == batch \o all

\* allDocuments.push(...batch)
PushBatch(all, batch) == all \o batch

\* for (const doc of batch) this.extractFieldPaths(doc, '', seenFieldPaths)
RECURSIVE ExtractBatch(_, _, _)
ExtractBatch(batch, n, fieldPaths) ==
    IF n > Len(batch) THEN fieldPaths
    ELSE ExtractBatch(batch, n + 1, extractFieldPaths(batch[n], << >>, fieldPaths))

\* $sample size of the call under way
RequestedSize ==
    Min(RemainingSamples(BatchSize(iteration), totalSampled), totalDocCount)

InitOrder ==
    /\ pc = "orderLoop"
    /\ MergeIdle
    /\ smartScan = TRUE
    /\ collections = <<RunCollection(collectionName)>>
    /\ collIndex = 0
    /\ allEntities = << >>
    /\ outcomes = << >>
    /\ totalDocCount \in OrderCounts
    /\ allDocuments = [length |-> 0, paths |-> {}]
    /\ seenFieldPaths = {}
    /\ totalSampled = 0
    /\ iterationsWithoutNewFields = 0
    /\ iteration = 0
    /\ batchLength = -1
    /\ newFieldsFound = -1
    /\ prevBatchStable = FALSE
    /\ sampleCalls = 0
    /\ countCalls = 1
    /\ findCalls = 0
    /\ fetched = NothingFetched

\* iteration++ ... collection.aggregate([{ $sample }]).toArray() is called
IssueSample ==
    /\ pc = "orderLoop"
    /\ LoopGuard(totalSampled, iterationsWithoutNewFields)
    /\ NextRemaining > 0
    /\ iteration' = iteration + 1
    /\ sampleCalls' = sampleCalls + 1
    /\ outstanding' = outstanding + 1
    /\ pc' = "orderAwait"
    /\ UNCHANGED <<mergeVars, smartScan, collections, collIndex, allEntities,
                   outcomes, totalDocCount, allDocuments, seenFieldPaths,
                   totalSampled, iterationsWithoutNewFields, batchLength,
                   newFieldsFound, prevBatchStable, countCalls, findCalls,
                   fetched, arrivals>>

\* the await resumes with a batch of documents: the rest of the loop body
BatchArrives ==
    /\ pc = "orderAwait"
    /\ \E n \in 1..Min(MaxBatchDocs, RequestedSize), wide \in BOOLEAN :
         LET batch == [m \in 1..n |-> OrderDoc(iteration, wide)]
         IN  /\ seenFieldPaths' = ExtractBatch(batch, 1, seenFieldPaths)
             /\ newFieldsFound' = NewFieldsFound(seenFieldPaths, seenFieldPaths')
             /\ documents' = PushBatch(documents, batch)
             /\ totalSampled' = AddSampled(totalSampled, Len(batch))
             /\ batchLength' = Len(batch)
             /\ arrivals' = arrivals \o [m \in 1..n |-> iteration]
             /\ iterationsWithoutNewFields' =
                    StabilityCounter(iterationsWithoutNewFields, newFieldsFound')
             /\ pc' = IF EarlyExit(totalSampled', totalDocCount)
                      THEN "orderSampled" ELSE "orderLoop"
    /\ prevBatchStable' = (newFieldsFound = 0)
    /\ outstanding' = outstanding - 1
    /\ UNCHANGED <<i, fieldMap, nestedTypes, result, smartScan, collections,
                   collIndex, allEntities, outcomes, totalDocCount, allDocuments,
                   iteration, sampleCalls, countCalls, findCalls, fetched>>

\* the await resumes with no document: if (batch.length === 0) break
EmptyArrives ==
    /\ pc = "orderAwait"
    /\ batchLength' = 0
    /\ outstanding' = outstanding - 1
    /\ pc' = "orderSampled"
    /\ UNCHANGED <<mergeVars, smartScan, collections, collIndex, allEntities,
                   outcomes, totalDocCount, allDocuments, seenFieldPaths,
                   totalSampled, iterationsWithoutNewFields, iteration,
                   newFieldsFound, prevBatchStable, sampleCalls, countCalls,
                   findCalls, fetched, arrivals>>

\* the await rejects: the error leaves dynamicSampling and introspectCollection
SampleRejects ==
    /\ pc = "orderAwait"
    /\ outstanding' = outstanding - 1
    /\ pc' = "failed"
    /\ UNCHANGED <<mergeVars, samplerVars, arrivals>>

\* the while condition is false, or remainingSamples <= 0
OrderLoopExit ==
    /\ pc = "orderLoop"
    /\ \/ ~LoopGuard(totalSampled, iterationsWithoutNewFields)
       \/ NextRemaining <= 0
    /\ pc' = "orderSampled"
    /\ UNCHANGED <<mergeVars, samplerVars, orderVars>>

\* documents = samplingResult.documents, up to the analysis loop
OrderStartAnalysis ==
    /\ pc = "orderSampled"
    /\ IF Len(documents) = 0
       THEN /\ result' = MinimalSchema
            /\ pc' = "done"
            /\ UNCHANGED <<fieldMap, nestedTypes>>
       ELSE /\ result' = result
            /\ pc' = "analyze"
            /\ fieldMap' = <<IdField(Len(documents))>>
            /\ nestedTypes' = << >>
    /\ UNCHANGED <<documents, i, samplerVars, orderVars>>

\* none of these documents makes the analysis throw
NextOrder ==
    \/ IssueSample
    \/ BatchArrives
    \/ EmptyArrives
    \/ SampleRejects
    \/ OrderLoopExit
    \/ OrderStartAnalysis
    \/ AnalyzeDocument
    \/ Finalize

SpecOrder == InitOrder /\ [][NextOrder]_vars

\* the sample calls whose documents the analysis loop has merged, in merge order
MergedBatches == [n \in 1..i |-> BatchOf(documents[n])]

InOrderRun == pc \in {"orderLoop", "orderAwait", "orderSampled", "analyze", "done"}

\* C29: at most one sample call is outstanding, the paths of a batch are
\* extracted before the next call is issued, the documents are merged one after
\* another in the order in which their batches arrived, and no merge happens
\* while a call is outstanding
C29_SerializedMerge ==
    /\ [](InOrderRun =>
            /\ outstanding \in {0, 1}
            /\ (outstanding = 1) = (pc = "orderAwait")
            /\ Len(documents) = Len(arrivals)
            /\ MergedBatches = SubSeq(arrivals, 1, i)
            /\ \A m, n \in 1..i : m <= n => MergedBatches[m] <= MergedBatches[n]
            /\ seenFieldPaths = UNION { extractFieldPaths(documents[n], << >>, {}) :
                                         n \in DOMAIN documents }
            /\ (pc \in {"orderLoop", "orderAwait", "orderSampled"} =>
                   i = 0 /\ fieldMap = << >>))
    /\ [][(InOrderRun /\ i' # i) => (outstanding = 0 /\ i' = i + 1)]_vars

\* the analysis has merged the documents of three sample calls
C29_Witness ==
    /\ pc = "done"
    /\ sampleCalls >= 3
    /\ i = Len(documents)
    /\ {arrivals[n] : n \in DOMAIN arrivals} = {1, 2, 3}
    /\ MergedBatches = arrivals

====
